---------------------------- MODULE Spec2Model ----------------------------
(***************************************************************************)
(* A model of threesixty/threesixty.py: the ThreeSixtyGiving dataset       *)
(* (from_json, fetch_schema, get_errors, is_valid, to_flatfile,            *)
(* convert_fieldnames) and Grant.to_flat.                                  *)
(*                                                                         *)
(* Strings are sequences of one-character strings.  In a regular           *)
(* expression the symbol "([0-9]+)" stands for that nine-character group,  *)
(* and in a replacement template the symbol "\\1" stands for the           *)
(* back-reference to group 1; no modelled name contains either text.       *)
(***************************************************************************)
EXTENDS Integers, Sequences, FiniteSets, TLC

VARIABLES
    schema,         \* self.schema: the record properties of the fetched schema
    validator,      \* self.validator: "None" or "Draft4Validator"
    errors,         \* self.errors
    valid,          \* self.valid
    replace_names,  \* self.replace_names: an ordered dict, as <<pattern, template>> pairs
    data,           \* self.data[root_id]: the list of grants
    outcome,        \* how the caller got the instance: "init", "returned", "raised"
    exc,            \* the exception from_json raised to its caller
    file,           \* the grants of the document in the file given to from_json
    engine,         \* what validator.iter_errors reports for that document
    printed,        \* what is_valid printed
    flat_out,       \* what to_flatfile returned
    conv_in,        \* the fieldnames argument of convert_fieldnames
    conv_out,       \* what convert_fieldnames returned, and the replace_names it read
    served,         \* the schema document schema_url serves
    grant,          \* a Grant's __dict__
    row             \* what Grant.to_flat returned

vars == <<schema, validator, errors, valid, replace_names, data, outcome, exc,
          file, engine, printed, flat_out, conv_in, conv_out, served, grant, row>>

\* A value no operation has produced yet (Python's None).
None == [none |-> TRUE]

-----------------------------------------------------------------------------
(* Bounds of the model                                                     *)

\* nodes (dicts, lists and scalars) of one Grant checked on its own
MaxNodes == 4
\* nodes of the grants of a document that validates
MaxDocNodes == 4
\* nodes of the grants of a document the engine reports anything about
MaxBadDocNodes == 2
\* errors the schema engine reports in one load
MaxErrors == 2
\* names and titles of a served schema
MaxProps == 4

-----------------------------------------------------------------------------
(* Strings                                                                 *)

Digits == <<"0", "1", "2", "3", "4", "5", "6", "7", "8", "9">>

IsDigit(c) == \E d \in 1..10 : Digits[d] = c

\* str(n) of a natural number
RECURSIVE str(_)
str(n) == IF n < 10 THEN <<Digits[n + 1]>>
          ELSE str(n \div 10) \o <<Digits[(n % 10) + 1]>>

-----------------------------------------------------------------------------
(* JSON values: a scalar, a list of values, or a dict, which keeps its     *)
(* members in insertion order, as <<key, value>> pairs with distinct keys. *)

Scalar(x) == [t |-> "scalar", v |-> x, items |-> <<>>]
List(xs) == [t |-> "list", v |-> 0, items |-> xs]
Dict(kvs) == [t |-> "dict", v |-> 0, items |-> kvs]

\* the scalars of the model
Scalars == {1, 2}

\* Member names of the model: two plain names, a name that contains the
\* separator of flat keys, and the empty name (all are JSON member names
\* and keyword names of Grant(**g)).
Keys == {<<"a">>, <<"b">>, <<"a", ".", "b">>, <<>>}

InjSeqs(S, n) == {s \in [1..n -> S] : \A i, j \in 1..n : i # j => s[i] # s[j]}

Keyed(K, f) == {[i \in 1..Len(f) |-> <<ks[i], f[i]>>] : ks \in InjSeqs(K, Len(f))}

\* the JSON values of exactly n nodes, and the sequences of values of n nodes in all
\* with member names K and scalars S
RECURSIVE ValuesOfSize(_, _, _), ForestsOfSize(_, _, _)
ValuesOfSize(K, S, n) ==
    IF n < 1 THEN {}
    ELSE (IF n = 1 THEN {Scalar(x) : x \in S} ELSE {})
         \cup {List(f) : f \in ForestsOfSize(K, S, n - 1)}
         \cup UNION {{Dict(kvs) : kvs \in Keyed(K, f)} : f \in ForestsOfSize(K, S, n - 1)}
ForestsOfSize(K, S, n) ==
    IF n = 0 THEN {<<>>}
    ELSE UNION {{<<v>> \o f : v \in ValuesOfSize(K, S, m),
                             f \in ForestsOfSize(K, S, n - m)} : m \in 1..n}

\* the dicts of at most n nodes: what Grant(**g) accepts
Records(K, S, n) == {g \in UNION {ValuesOfSize(K, S, m) : m \in 1..n} : g.t = "dict"}

\* the lists of dicts of at most n nodes below the list: the grants of a document
Documents(K, S, n) ==
    {f \in UNION {ForestsOfSize(K, S, m) : m \in 0..n} :
        \A i \in 1..Len(f) : f[i].t = "dict"}

-----------------------------------------------------------------------------
(* OrderedDict                                                             *)

HasKey(od, k) == \E i \in 1..Len(od) : od[i][1] = k

\* od[k] = v: a new key is appended, a present key keeps its position
SetItem(od, k, v) ==
    IF HasKey(od, k)
    THEN [i \in 1..Len(od) |-> IF od[i][1] = k THEN <<k, v>> ELSE od[i]]
    ELSE Append(od, <<k, v>>)

\* OrderedDict(pairs)
RECURSIVE FromPairs(_, _, _)
FromPairs(pairs, i, od) ==
    IF i > Len(pairs) THEN od
    ELSE FromPairs(pairs, i + 1, SetItem(od, pairs[i][1], pairs[i][2]))

OrderedDict(pairs) == FromPairs(pairs, 1, <<>>)

KeysOf(od) == [i \in 1..Len(od) |-> od[i][1]]

-----------------------------------------------------------------------------
(* Grant.to_flat                                                           *)

\* dict(zip(map(str, range(len(vals))), vals)) for a list; a dict as it is
AsItems(vals) ==
    IF vals.t = "list"
    THEN [i \in 1..Len(vals.items) |-> <<str(i - 1), vals.items[i]>>]
    ELSE vals.items

\* '{}.{}'.format(prefix, v) if prefix != '' else v
new_key(prefix, v) == IF prefix # <<>> THEN prefix \o <<".">> \o v ELSE v

RECURSIVE flatten(_, _), FlattenFrom(_, _, _)
FlattenFrom(items, i, prefix) ==
    IF i > Len(items) THEN <<>>
    ELSE LET k == new_key(prefix, items[i][1])
             val == items[i][2]
         IN  (IF val.t \in {"list", "dict"} THEN flatten(val, k) ELSE << <<k, val>> >>)
             \o FlattenFrom(items, i + 1, prefix)
flatten(vals, prefix) == FlattenFrom(AsItems(vals), 1, prefix)

to_flat(g) == OrderedDict(flatten(g, <<>>))

-----------------------------------------------------------------------------
(* Regular expressions: re.fullmatch and re.sub on the patterns that       *)
(* recurse_names builds.  A pattern is a sequence of symbols: "." matches  *)
(* any character, "([0-9]+)" is a greedy capturing group of one or more    *)
(* digits, any other symbol matches itself.                                *)

Group == "([0-9]+)"
BackRef == "\\1"

NoMatch == [ok |-> FALSE, end |-> 0, caps |-> <<>>]

\* the number of digits of s from position si on
RECURSIVE DigitRun(_, _)
DigitRun(s, si) ==
    IF si <= Len(s) /\ IsDigit(s[si]) THEN 1 + DigitRun(s, si + 1) ELSE 0

\* The backtracking matcher: the first match, in the engine's order of
\* preference, of pat from symbol pi on against s from position si on; with
\* full set, a match has to end at the end of s.
RECURSIVE MatchFrom(_, _, _, _, _, _), TryGroup(_, _, _, _, _, _, _)
MatchFrom(pat, pi, s, si, caps, full) ==
    IF pi > Len(pat)
    THEN IF full /\ si # Len(s) + 1 THEN NoMatch
         ELSE [ok |-> TRUE, end |-> si, caps |-> caps]
    ELSE IF pat[pi] = Group
         THEN TryGroup(pat, pi, s, si, caps, full, DigitRun(s, si))
         ELSE IF si <= Len(s) /\ (pat[pi] = "." \/ pat[pi] = s[si])
              THEN MatchFrom(pat, pi + 1, s, si + 1, caps, full)
              ELSE NoMatch
TryGroup(pat, pi, s, si, caps, full, k) ==
    IF k < 1 THEN NoMatch
    ELSE LET r == MatchFrom(pat, pi + 1, s, si + k,
                            Append(caps, SubSeq(s, si, si + k - 1)), full)
         IN  IF r.ok THEN r ELSE TryGroup(pat, pi, s, si, caps, full, k - 1)

\* re.fullmatch(pat, s), as a match object
FullMatch(pat, s) == MatchFrom(pat, 1, s, 1, <<>>, TRUE)

\* re.fullmatch(pat, s), as the condition of an if
fullmatch(pat, s) == FullMatch(pat, s).ok

\* re.match(pat, s): a match of a prefix of s
prefixmatch(pat, s) == MatchFrom(pat, 1, s, 1, <<>>, FALSE).ok

\* the template with every back-reference replaced by group 1
RECURSIVE Expand(_, _)
Expand(repl, caps) ==
    IF repl = <<>> THEN <<>>
    ELSE (IF Head(repl) = BackRef THEN caps[1] ELSE <<Head(repl)>>)
         \o Expand(Tail(repl), caps)

\* the leftmost position from pos on where pat matches, or 0
RECURSIVE Search(_, _, _)
Search(pat, s, pos) ==
    IF pos > Len(s) + 1 THEN 0
    ELSE IF MatchFrom(pat, 1, s, pos, <<>>, FALSE).ok THEN pos
         ELSE Search(pat, s, pos + 1)

\* re.sub(pat, repl, s): every non-overlapping match, leftmost first, replaced
RECURSIVE SubFrom(_, _, _, _)
SubFrom(pat, repl, s, pos) ==
    LET i == Search(pat, s, pos) IN
    IF i = 0 THEN SubSeq(s, pos, Len(s))
    ELSE LET m == MatchFrom(pat, 1, s, i, <<>>, FALSE) IN
         SubSeq(s, pos, i - 1) \o Expand(repl, m.caps)
         \o (IF m.end > i THEN SubFrom(pat, repl, s, m.end)
             ELSE IF i <= Len(s) THEN <<s[i]>> \o SubFrom(pat, repl, s, i + 1)
             ELSE <<>>)

sub(pat, repl, s) == SubFrom(pat, repl, s, 1)

-----------------------------------------------------------------------------
(* Schemas: the ordered properties at properties.<root_id>.items.properties *)
(* of the dereferenced schema.  A property is [n, title, type, props]:     *)
(* title is <<>> when the property has none and <<t>> when its title is t; *)
(* props are items.properties, empty when there are none.                  *)

Names == {<<"a">>, <<"b">>}

\* the title a property carries when it carries one
TitleFor(n) == IF n = <<"a">> THEN <<"b">> ELSE <<"T">>

Prop(n, hasTitle, type, props) ==
    [n |-> n, title |-> IF hasTitle THEN <<TitleFor(n)>> ELSE <<>>,
     type |-> type, props |-> props]

DistinctNames(ps) == \A i, j \in 1..Len(ps) : i # j => ps[i].n # ps[j].n

\* what a title adds to the size of a schema
Cost(hasTitle) == IF hasTitle THEN 1 ELSE 0

\* the properties of exactly k names and titles, and the property lists of
\* k names and titles in all
RECURSIVE PropsOfSize(_), PropListsOfSize(_)
PropsOfSize(k) ==
    IF k < 1 THEN {}
    ELSE {Prop(n, h, "string", <<>>) :
          n \in Names, h \in {x \in BOOLEAN : 1 + Cost(x) = k}}
         \cup UNION {{Prop(n, h, "array", ps) :
                      n \in Names, ps \in PropListsOfSize(k - 1 - Cost(h))} :
                     h \in {x \in BOOLEAN : 1 + Cost(x) <= k}}
PropListsOfSize(k) ==
    IF k = 0 THEN {<<>>}
    ELSE {ps \in UNION {{<<p>> \o rest : p \in PropsOfSize(m),
                                         rest \in PropListsOfSize(k - m)} :
                        m \in 1..k} : DistinctNames(ps)}

Schemas(k) == UNION {PropListsOfSize(m) : m \in 0..k}

\* prop.get("title", i)
title(prop, i) == IF prop.title = <<>> THEN i ELSE prop.title[1]

-----------------------------------------------------------------------------
(* fetch_schema.recurse_names                                              *)

\* '{}.([0-9]+).{}'.format(prefix_k, i) if prefix_k != '' else i
name_k(prefix_k, i) ==
    IF prefix_k # <<>> THEN prefix_k \o <<".", Group, ".">> \o i ELSE i

\* '{}:\\1:{}'.format(prefix_v, prop.get("title", i)) if prefix_v != ''
\* else prop.get("title", i)
name_v(prefix_v, prop, i) ==
    IF prefix_v # <<>> THEN prefix_v \o <<":", BackRef, ":">> \o title(prop, i)
    ELSE title(prop, i)

RECURSIVE RecurseFrom(_, _, _, _, _)
RecurseFrom(props, j, names, prefix_k, prefix_v) ==
    IF j > Len(props) THEN names
    ELSE LET prop == props[j]
             k == name_k(prefix_k, prop.n)
             v == name_v(prefix_v, prop, prop.n)
         IN  RecurseFrom(props, j + 1,
                         IF prop.type = "array"
                         THEN RecurseFrom(prop.props, 1, names, k, v)
                         ELSE SetItem(names, k, v),
                         prefix_k, prefix_v)

recurse_names(props, names, prefix_k, prefix_v) ==
    RecurseFrom(props, 1, names, prefix_k, prefix_v)

-----------------------------------------------------------------------------
(* convert_fieldnames                                                      *)

\* OrderedDict(zip(fieldnames, fieldnames))
ZipSelf(fieldnames) ==
    OrderedDict([i \in 1..Len(fieldnames) |-> <<fieldnames[i], fieldnames[i]>>])

\* ApplyRule, were re.match used for re.fullmatch
ApplyRule_match(od, old, new) ==
    [i \in 1..Len(od) |->
        IF prefixmatch(old, od[i][1]) THEN <<od[i][1], sub(old, new, od[i][1])>>
        ELSE od[i]]

\* ApplyRule, were the rule tested on and applied to the name as rewritten so far
ApplyRule_cumulative(od, old, new) ==
    [i \in 1..Len(od) |->
        IF fullmatch(old, od[i][2]) THEN <<od[i][1], sub(old, new, od[i][2])>>
        ELSE od[i]]

\* for field in fieldnames: if re.fullmatch(old, field): fieldnames[field] = ...
ApplyRule(od, old, new) ==
    [i \in 1..Len(od) |->
        IF fullmatch(old, od[i][1]) THEN <<od[i][1], sub(old, new, od[i][1])>>
        ELSE od[i]]

\* for old, new in self.replace_names.items(): ...
RECURSIVE ApplyRules(_, _, _)
ApplyRules(od, names, j) ==
    IF j > Len(names) THEN od
    ELSE ApplyRules(ApplyRule(od, names[j][1], names[j][2]), names, j + 1)

convert_fieldnames(names, fieldnames) == ApplyRules(ZipSelf(fieldnames), names, 1)

-----------------------------------------------------------------------------
(* Field names handed to convert_fieldnames                                *)

RECURSIVE Join(_)
Join(segs) ==
    IF segs = <<>> THEN <<>>
    ELSE IF Len(segs) = 1 THEN segs[1]
    ELSE segs[1] \o <<".">> \o Join(Tail(segs))

\* array indices of the modelled field names
Indices == {str(0), str(1)}

\* flat keys of a field, of a field below one array, and below two arrays
FieldPool ==
    Names
    \cup {Join(<<n, i, m>>) : n \in Names, i \in Indices \cup {str(10)}, m \in Names}
    \cup {Join(<<n, i, m, j, l>>) :
          n \in Names, i \in Indices, m \in Names, j \in Indices, l \in Names}

ShortFields == Names \cup {Join(<<<<"a">>, str(0), <<"b">>>>)}

\* the lists of field names: one name, or two short ones
FieldLists ==
    {<<f>> : f \in FieldPool} \cup {<<f, g>> : f \in ShortFields, g \in ShortFields}

-----------------------------------------------------------------------------
(* Validation errors.  The schema engine (jsonschema) is outside the       *)
(* repository: what iter_errors reports is an input.  An error carries the *)
(* failing keyword (validator), the keyword's value in the schema          *)
(* (validator_value; for oneOf and anyOf the list of alternative schemas)  *)
(* and a message.  A schema is the set of its <<keyword, value>> members.  *)

FormatDateTime == {<<"format", "date-time">>}
FormatDate == {<<"format", "date">>}
TypedDateTime == {<<"format", "date-time">>, <<"type", "string">>}

Error(kw, alternatives, msg) ==
    [validator |-> kw, validator_value |-> alternatives, message |-> msg]

EngineErrors ==
    {Error("oneOf", <<FormatDateTime, FormatDate>>, "m1"),
     Error("oneOf", <<FormatDate, FormatDateTime>>, "m2"),
     Error("oneOf", <<TypedDateTime>>, "m3"),
     Error("anyOf", <<FormatDateTime, FormatDate>>, "m4")}

\* the reports of the engine for one document
EngineReports == UNION {[1..n -> EngineErrors] : n \in 0..MaxErrors}

\* ignored, were the first alternative not looked at
ignored_any_oneOf(e) == e.validator = "oneOf"

\* e.validator == 'oneOf' and e.validator_value[0] == {'format': 'date-time'}
ignored(e) == e.validator = "oneOf" /\ e.validator_value[1] = FormatDateTime

\* get_errors: the errors of iter_errors, the ignored ones skipped
RECURSIVE get_errors(_)
get_errors(reported) ==
    IF reported = <<>> THEN <<>>
    ELSE IF ignored(Head(reported)) THEN get_errors(Tail(reported))
    ELSE <<Head(reported)>> \o get_errors(Tail(reported))

\* raises, were the load never failed
raises_never(errs) == FALSE

\* from_json: if c.errors: raise ValueError("Invalid file")
raises(errs) == errs # <<>>

\* the exception of from_json: a ValueError whose only argument is the text
InvalidFile == [type |-> "ValueError", args |-> <<"Invalid file">>]

-----------------------------------------------------------------------------
(* to_flatfile                                                             *)

\* AddKeys, were every key appended
AddKeys_unchecked(fieldnames, keys, i) == fieldnames \o SubSeq(keys, i, Len(keys))

\* for f in g_flat.keys(): if f not in fieldnames: fieldnames.append(f)
RECURSIVE AddKeys(_, _, _)
AddKeys(fieldnames, keys, i) ==
    IF i > Len(keys) THEN fieldnames
    ELSE AddKeys(IF \E j \in 1..Len(fieldnames) : fieldnames[j] = keys[i]
                 THEN fieldnames ELSE Append(fieldnames, keys[i]),
                 keys, i + 1)

\* for g in self: ... ; return (data, fieldnames)
RECURSIVE FlatfileFrom(_, _, _, _)
FlatfileFrom(grants, i, rows, fieldnames) ==
    IF i > Len(grants) THEN [data |-> rows, fieldnames |-> fieldnames]
    ELSE LET g_flat == to_flat(grants[i])
         IN  FlatfileFrom(grants, i + 1, Append(rows, g_flat),
                          AddKeys(fieldnames, KeysOf(g_flat), 1))

to_flatfile(grants) == FlatfileFrom(grants, 1, <<>>, <<>>)

-----------------------------------------------------------------------------
(* The state after ThreeSixtyGiving.__init__                               *)

InitDataset ==
    /\ schema = None
    /\ validator = "None"
    /\ errors = <<>>
    /\ valid = FALSE
    /\ replace_names = <<>>
    /\ data = <<>>
    /\ outcome = "init"
    /\ exc = None
    /\ printed = <<>>
    /\ flat_out = None
    /\ conv_out = None

datasetVars == <<schema, validator, errors, valid, replace_names, data, outcome,
                 exc, file, engine, printed, flat_out, conv_in, conv_out>>

\* The caller holds the instance: from_json returned it, or the caller
\* built it; an instance whose load raised is not handed to anyone.
Held == outcome # "raised"

-----------------------------------------------------------------------------
(* Grant.to_flat on its own                                                *)

\* g.to_flat()
ToFlat ==
    /\ row' = [result |-> to_flat(grant)]
    /\ UNCHANGED <<datasetVars, served, grant>>

InitFlat ==
    /\ InitDataset
    /\ conv_in = None
    /\ file = <<>>
    /\ engine = <<>>
    /\ served = None
    /\ grant \in Records(Keys, Scalars, MaxNodes)
    /\ row = None

NextFlat == ToFlat

SpecFlat == InitFlat /\ [][NextFlat]_vars

-----------------------------------------------------------------------------
(* The methods of a ThreeSixtyGiving instance                              *)

\* self.fetch_schema(), the request answered with the properties s
FetchSchema(s) ==
    /\ Held
    /\ schema' = s
    /\ validator' = "Draft4Validator"
    /\ replace_names' = recurse_names(s, replace_names, <<>>, <<>>)
    /\ UNCHANGED <<errors, valid, data, outcome, exc, file, engine, printed,
                   flat_out, conv_in, conv_out, served, grant, row>>

\* self.convert_fieldnames(fieldnames)
ConvertFieldnames(fieldnames) ==
    /\ Held
    /\ conv_in' = fieldnames
    /\ conv_out' = [names |-> replace_names,
                     result |-> convert_fieldnames(replace_names, fieldnames)]
    /\ UNCHANGED <<schema, validator, errors, valid, replace_names, data, outcome,
                   exc, file, engine, printed, flat_out, served, grant, row>>

\* ThreeSixtyGiving()
Construct ==
    /\ schema' = None
    /\ validator' = "None"
    /\ errors' = <<>>
    /\ valid' = FALSE
    /\ replace_names' = <<>>
    /\ data' = <<>>
    /\ outcome' = "init"
    /\ exc' = None
    /\ printed' = <<>>
    /\ flat_out' = None
    /\ conv_in' = None
    /\ conv_out' = None
    /\ UNCHANGED <<file, engine, served, grant, row>>

\* ThreeSixtyGiving.from_json(f), the schema request answered with the
\* properties s
FromJson(s) ==
    LET errs == get_errors(engine) IN
    /\ data' = file
    /\ schema' = s
    /\ validator' = "Draft4Validator"
    /\ replace_names' = recurse_names(s, <<>>, <<>>, <<>>)
    /\ errors' = errs
    /\ IF raises(errs)
       THEN /\ valid' = FALSE
            /\ outcome' = "raised"
            /\ exc' = InvalidFile
       ELSE /\ valid' = (Len(errs) = 0)
            /\ outcome' = "returned"
            /\ exc' = None
    /\ printed' = <<>>
    /\ flat_out' = None
    /\ conv_in' = None
    /\ conv_out' = None
    /\ UNCHANGED <<file, engine, served, grant, row>>

\* self.is_valid(): the messages are printed when the instance is not valid
IsValid ==
    /\ Held
    /\ printed' = IF ~valid THEN [i \in 1..Len(errors) |-> errors[i].message]
                  ELSE <<>>
    /\ UNCHANGED <<schema, validator, errors, valid, replace_names, data, outcome,
                   exc, file, engine, flat_out, conv_in, conv_out, served, grant, row>>

\* self.to_flatfile()
ToFlatfile ==
    /\ Held
    /\ flat_out' = to_flatfile(data)
    /\ UNCHANGED <<schema, validator, errors, valid, replace_names, data, outcome,
                   exc, file, engine, printed, conv_in, conv_out, served, grant, row>>

-----------------------------------------------------------------------------
(* fetch_schema and convert_fieldnames on one instance, for every schema   *)
(* and list of field names of the bounds                                   *)

InitNames ==
    /\ InitDataset
    /\ conv_in \in FieldLists
    /\ file = <<>>
    /\ engine = <<>>
    /\ served \in Schemas(MaxProps)
    /\ grant = None
    /\ row = None

NextNames ==
    \/ FetchSchema(served)
    \/ ConvertFieldnames(conv_in)

SpecNames == InitNames /\ [][NextNames]_vars

-----------------------------------------------------------------------------
(* The life of an instance: loading, validation and export                 *)

\* member names and scalars of the loaded documents
DocKeys == {<<"a">>, <<"b">>}
DocScalars == {1}

\* the schemas the requests of a load are answered with: a titled field,
\* and an array of objects with a titled field
DocSchemas ==
    {<<Prop(<<"a">>, TRUE, "string", <<>>)>>,
     <<Prop(<<"a">>, FALSE, "array", <<Prop(<<"b">>, TRUE, "string", <<>>)>>)>>}

Init ==
    /\ InitDataset
    /\ conv_in = None
    /\ \/ /\ file \in Documents(DocKeys, DocScalars, MaxDocNodes)
          /\ engine \in {r \in EngineReports : \A i \in 1..Len(r) : ignored(r[i])}
       \/ /\ file \in Documents(DocKeys, DocScalars, MaxBadDocNodes)
          /\ engine \in EngineReports
    /\ served = None
    /\ grant = None
    /\ row = None

Next ==
    \/ Construct
    \/ \E s \in DocSchemas : FromJson(s)
    \/ \E s \in DocSchemas : FetchSchema(s)
    \/ IsValid
    \/ ToFlatfile

Spec == Init /\ [][Next]_vars

-----------------------------------------------------------------------------
(* What the claims speak of, stated apart from the operations above        *)

\* an engine error of the kind the specification suppresses
SuppressedKind(e) ==
    /\ e.validator = "oneOf"
    /\ Head(e.validator_value) = {<<"format", "date-time">>}

SurfacedKind(e) == ~SuppressedKind(e)

\* the leaves of a value that are neither lists nor dicts, depth first and
\* left to right, each with the path of member names and list positions to it
RECURSIVE LeafListing(_, _), LeavesFrom(_, _, _)
LeavesFrom(val, i, path) ==
    IF i > Len(val.items) THEN <<>>
    ELSE (IF val.t = "list"
          THEN LeafListing(val.items[i], Append(path, str(i - 1)))
          ELSE LeafListing(val.items[i][2], Append(path, val.items[i][1])))
         \o LeavesFrom(val, i + 1, path)
LeafListing(val, path) ==
    IF val.t = "scalar" THEN << <<path, val>> >> ELSE LeavesFrom(val, 1, path)

\* the listing with every path joined by "."
JoinedLeaves(g) ==
    LET leaves == LeafListing(g, <<>>)
    IN  [i \in 1..Len(leaves) |-> <<Join(leaves[i][1]), leaves[i][2]>>]

\* the rules one depth-first traversal of the properties derives, as a list
TitleOrName(p) == IF p.title = <<>> THEN p.n ELSE p.title[1]

RECURSIVE RulesOf(_, _, _, _)
RulesOf(props, first, pattern, template) ==
    IF props = <<>> THEN <<>>
    ELSE LET p == Head(props)
             pat == IF first THEN p.n ELSE pattern \o <<".", Group, ".">> \o p.n
             tmpl == IF first THEN TitleOrName(p)
                     ELSE template \o <<":", BackRef, ":">> \o TitleOrName(p)
         IN  (IF p.type = "array" THEN RulesOf(p.props, FALSE, pat, tmpl)
              ELSE << <<pat, tmpl>> >>)
             \o RulesOf(Tail(props), first, pattern, template)

\* a sequence without the repetitions of its elements
RECURSIVE FirstOccurrences(_)
FirstOccurrences(seq) ==
    IF seq = <<>> THEN <<>>
    ELSE LET init == FirstOccurrences(SubSeq(seq, 1, Len(seq) - 1))
             last == seq[Len(seq)]
         IN  IF \E i \in 1..Len(init) : init[i] = last THEN init
             ELSE Append(init, last)

\* the keys of all rows, one row after the other
RECURSIVE AllKeys(_)
AllKeys(rows) ==
    IF rows = <<>> THEN <<>> ELSE KeysOf(Head(rows)) \o AllKeys(Tail(rows))

\* the rules of `names` whose pattern matches the whole of f
Matching(names, f) == {j \in 1..Len(names) : fullmatch(names[j][1], f)}

Last(S) == CHOOSE j \in S : \A k \in S : k <= j

\* the template with its k-th back-reference replaced by the k-th index
RECURSIVE ExpandByLevel(_, _, _)
ExpandByLevel(repl, caps, k) ==
    IF repl = <<>> THEN <<>>
    ELSE IF Head(repl) = BackRef
         THEN caps[k] \o ExpandByLevel(Tail(repl), caps, k + 1)
         ELSE <<Head(repl)>> \o ExpandByLevel(Tail(repl), caps, k)

\* the name after every rule, in order, was tested on and applied to the
\* name as rewritten so far
RECURSIVE Cumulative(_, _, _)
Cumulative(names, j, current) ==
    IF j > Len(names) THEN current
    ELSE Cumulative(names, j + 1,
                    IF fullmatch(names[j][1], current)
                    THEN sub(names[j][1], names[j][2], current)
                    ELSE current)

-----------------------------------------------------------------------------
(* The claims                                                              *)

\* C1: from_json returns an instance only when no error is left after
\* suppression: a returned instance is valid with no errors, a load with an
\* error of a surfaced kind is not returned, and valid implies no errors.
C1_FailFast ==
    /\ valid => errors = <<>>
    /\ outcome = "returned" => valid /\ errors = <<>>
    /\ outcome = "returned" => \A i \in 1..Len(engine) : SuppressedKind(engine[i])
    /\ (outcome # "init" /\ \E i \in 1..Len(engine) : SurfacedKind(engine[i]))
           => outcome = "raised" /\ ~valid /\ exc = InvalidFile

\* C1: a load whose document drew suppressed errors only was returned
C1_Witness ==
    outcome = "returned" /\ valid /\ engine # <<>> /\ data # <<>>

\* C2: the errors of a load are the engine's errors of the surfaced kinds,
\* in the engine's order and unmodified; a document with suppressed errors
\* only loads as valid with no errors, one with any other error is invalid
\* with at least one error.
C2_SurfacedErrors ==
    outcome # "init" =>
        /\ errors = SelectSeq(engine, SurfacedKind)
        /\ (\A i \in 1..Len(engine) : SuppressedKind(engine[i]))
               => outcome = "returned" /\ valid /\ errors = <<>>
        /\ (\E i \in 1..Len(engine) : SurfacedKind(engine[i]))
               => outcome = "raised" /\ ~valid /\ Len(errors) >= 1

\* C2: a load in which one error was suppressed and another surfaced
C2_Witness ==
    outcome = "raised" /\ Len(errors) >= 1 /\ Len(errors) < Len(engine)

\* C3: the pairs of the FlatRow are the depth-first, left-to-right listing
\* of the record's leaves, each key the path joined with "." and each value
\* the leaf.
C3_FlatRowListsLeaves ==
    row # None => row.result = JoinedLeaves(grant)

\* C4: after fetch_schema the rename rules are the rules of one traversal
\* of the fetched schema, in that order, and nothing else.
C4_RulesOfFetchedSchema ==
    validator = "Draft4Validator" => replace_names = RulesOf(schema, TRUE, <<>>, <<>>)

\* C5: the mapping has the input names as keys, in input order; a name no
\* rule matches in full maps to itself; a name exactly one rule matches in
\* full maps to that rule's template with the captured index; n.N.m maps to
\* the template of the rule n.([0-9]+).m with N for the back-reference.
C5_FieldNameMapping ==
    conv_out # None =>
        LET out == conv_out.result
            names == conv_out.names
        IN  /\ KeysOf(out) = FirstOccurrences(conv_in)
            /\ \A i \in 1..Len(out) :
                   LET f == out[i][1] IN
                   /\ Matching(names, f) = {} => out[i][2] = f
                   /\ \A j \in Matching(names, f) :
                          Matching(names, f) = {j}
                              => out[i][2] = Expand(names[j][2],
                                                    FullMatch(names[j][1], f).caps)
                   /\ \A n \in Names, m \in Names, N \in Indices \cup {str(10)} :
                          \A j \in 1..Len(names) :
                              (/\ f = Join(<<n, N, m>>)
                               /\ names[j][1] = n \o <<".", Group, ".">> \o m)
                                  => out[i][2] = Expand(names[j][2], <<N>>)

\* C5: a field below an array, with a two-digit index, was renamed
C5_Witness ==
    /\ conv_out # None
    /\ \E i \in 1..Len(conv_out.result) :
           /\ conv_out.result[i][1] = Join(<<<<"a">>, str(10), <<"b">>>>)
           /\ conv_out.result[i][2] = <<"a", ":", "1", "0", ":", "T">>

\* C6: to_flatfile returns one FlatRow per stored record, in order, and
\* the field names: every key of every row once, in the order of first
\* occurrence; a row has an entry for a field exactly when its record has
\* that leaf; the stored document is the loaded one.
C6_Flatfile ==
    flat_out # None =>
        LET rows == flat_out.data
            fieldnames == flat_out.fieldnames
        IN  /\ Len(rows) = Len(data)
            /\ \A i \in 1..Len(rows) : rows[i] = JoinedLeaves(data[i])
            /\ fieldnames = FirstOccurrences(AllKeys(rows))
            /\ \A i, j \in 1..Len(fieldnames) : i # j => fieldnames[i] # fieldnames[j]
            /\ \A i \in 1..Len(rows) : \A k \in 1..Len(rows[i]) :
                   \E j \in 1..Len(fieldnames) : fieldnames[j] = rows[i][k][1]
            /\ \A i \in 1..Len(rows) : \A j \in 1..Len(fieldnames) :
                   HasKey(rows[i], fieldnames[j])
                       <=> \E k \in 1..Len(JoinedLeaves(data[i])) :
                               JoinedLeaves(data[i])[k][1] = fieldnames[j]
            /\ outcome = "returned" => data = file

\* C6: two records were exported, the second lacking a field of the first
C6_Witness ==
    /\ flat_out # None
    /\ outcome = "returned"
    /\ Len(flat_out.data) = 2
    /\ \E j \in 1..Len(flat_out.fieldnames) :
           /\ HasKey(flat_out.data[1], flat_out.fieldnames[j])
           /\ ~HasKey(flat_out.data[2], flat_out.fieldnames[j])

\* C7: the exception of a failed load carries every surfaced error: each
\* error's message is among the arguments of the exception.
C7_FailureCarriesErrors ==
    outcome = "raised" =>
        \A i \in 1..Len(errors) :
            \E k \in 1..Len(exc.args) : exc.args[k] = errors[i].message

\* C8, as claimed: the display name is the result of testing every rule, in
\* order, on the name as rewritten so far, and rewriting it again on a match.
C8_CumulativeRewrite ==
    conv_out # None =>
        \A i \in 1..Len(conv_out.result) :
            conv_out.result[i][2]
                = Cumulative(conv_out.names, 1, conv_out.result[i][1])

\* C8, amended: every rule is tested on the original field name; the
\* display name is the substitution, in the original name, of the last rule
\* in derivation order that matches the original name in full, and the
\* original name when there is none.
C8_LastRuleOnOriginalName ==
    conv_out # None =>
        \A i \in 1..Len(conv_out.result) :
            LET f == conv_out.result[i][1]
                M == Matching(conv_out.names, f)
            IN  conv_out.result[i][2]
                    = IF M = {} THEN f
                      ELSE sub(conv_out.names[Last(M)][1], conv_out.names[Last(M)][2], f)

\* C8: a name was rewritten by one rule, and a later rule that matches the
\* rewritten name, not the original one, left it alone
C8_Witness ==
    /\ conv_out # None
    /\ \E i \in 1..Len(conv_out.result) :
           \E j, k \in 1..Len(conv_out.names) :
               /\ j < k
               /\ fullmatch(conv_out.names[j][1], conv_out.result[i][1])
               /\ conv_out.result[i][2] # conv_out.result[i][1]
               /\ ~fullmatch(conv_out.names[k][1], conv_out.result[i][1])
               /\ fullmatch(conv_out.names[k][1], conv_out.result[i][2])
               /\ sub(conv_out.names[k][1], conv_out.names[k][2], conv_out.result[i][2])
                      # conv_out.result[i][2]

\* C9: for every flat key a rule matches in full, the k-th array index of
\* the key is the k-th index of the display name.
C9_EachIndexAtItsLevel ==
    conv_out # None =>
        \A i \in 1..Len(conv_out.result) :
            LET f == conv_out.result[i][1]
                M == Matching(conv_out.names, f)
            IN  M # {} =>
                    conv_out.result[i][2]
                        = ExpandByLevel(conv_out.names[Last(M)][2],
                                        FullMatch(conv_out.names[Last(M)][1], f).caps, 1)

\* C10: to_flat yields no flat key twice: the FlatRow has one entry for
\* every leaf of the record.
C10_NoDuplicateFlatKey ==
    row # None =>
        LET pairs == flatten(grant, <<>>)
        IN  /\ \A i, j \in 1..Len(pairs) : i # j => pairs[i][1] # pairs[j][1]
            /\ Len(row.result) = Len(LeafListing(grant, <<>>))

=============================================================================
